---- MODULE Spec2Model ----
(***************************************************************************)
(* Study assistant: the agent control loop (agent/agent_core.py), the      *)
(* query endpoint that drives it (api.py) and the tools whose state        *)
(* outlives a turn (agent/tools).                                          *)
(*                                                                         *)
(* The specifications share the variables:                                 *)
(*   Spec           the service: start-up, queries, the LLM/TOOLS loop of  *)
(*                  each executor, the checkpointer, the progress tracker; *)
(*   SpecCallModel  call_model applied, as a function of the conversation  *)
(*                  state, to every short sequence of message              *)
(*                  representations, twice in a row;                       *)
(*   SpecDispatch   one turn of the fallback executor and of the compiled  *)
(*                  graph over several tool lists, and ToolsState.run      *)
(*                  called on a state directly: name resolution, tool      *)
(*                  failures, the messages returned;                       *)
(*   SpecSandbox    the code-execution and the solution-validation tool    *)
(*                  running user code, second by second;                   *)
(*   SpecUpload     the upload endpoint: loading, tagging, splitting and   *)
(*                  indexing batches of files into the persistent store;   *)
(*   SpecSplit      the fallback loop of split_text, pass by pass, on      *)
(*                  texts of every short length with every small           *)
(*                  chunk_size and chunk_overlap;                          *)
(*   SpecAnswer     the service with a model that may answer with empty    *)
(*                  content: the answer search_rag extracts from a turn;   *)
(*   SpecArtifacts  the structured formatter and the solution validator    *)
(*                  writing their files as the clock's seconds pass;       *)
(*   SpecTracker    invocations of the progress tracker by two workers,    *)
(*                  their loads and saves of learning_state.json           *)
(*                  interleaved.                                           *)
(***************************************************************************)
EXTENDS Integers, Sequences, FiniteSets, TLC

\* ------------------------------------------------------------------ bounds
\* Longest conversation state handed to call_model in SpecCallModel.
MaxLen == 2
\* Queries served by the endpoint in one behaviour of Spec.
MaxQueries == 2
\* TOOLS steps the modelled LLM asks for in one behaviour of Spec; they may
\* all fall in one turn.
MaxCycles == 2

\* ---------------------------------------------------------------- messages
(* One element of state['messages'].  rep is the Python representation:    *)
(*   "typed"  a BaseMessage, role in system / human / ai / tool;           *)
(*   "pair"   a (role, content) tuple or list, role the string as written; *)
(*   "dict"   a dictionary with a 'content' key, role its 'role' ("" when  *)
(*            it has none);                                                *)
(*   "str"    a plain string;                                              *)
(*   "obj"    any other object (a dictionary without 'content', a list     *)
(*            shorter than two, ...), content its str();                   *)
(*   "none"   None.                                                        *)
(* valid: for a pair or a dictionary, whether the content is one the       *)
(* message constructors accept (text); constructing HumanMessage,          *)
(* AIMessage or SystemMessage with content None raises.  For an "obj",     *)
(* whether str() of it returns.                                            *)
Msg(rep, role, content, valid, calls) ==
    [rep |-> rep, role |-> role, content |-> content, valid |-> valid,
     tool_calls |-> calls]

STUDY_ASSISTANT_SYSTEM_PROMPT == "PROMPT"

SystemMessage(content) == Msg("typed", "system", content, TRUE, <<>>)
HumanMessage(content) == Msg("typed", "human", content, TRUE, <<>>)
AIMessage(content) == Msg("typed", "ai", content, TRUE, <<>>)
ToolMessage(content) == Msg("typed", "tool", content, TRUE, <<>>)
AIResponse(content, calls) == Msg("typed", "ai", content, TRUE, calls)
Pair(role, content) == Msg("pair", role, content, TRUE, <<>>)

\* str.lower() on the role strings the model uses.
Lower(role) ==
    CASE role = "Human" -> "human"
      [] role = "AI" -> "ai"
      [] role = "SYS" -> "sys"
      [] role = "System" -> "system"
      [] OTHER -> role

IsSystem(m) == m.rep = "typed" /\ m.role = "system"

\* any(isinstance(m, SystemMessage) for m in messages if isinstance(m, BaseMessage))
has_system_msg(messages) ==
    \E i \in 1..Len(messages) : IsSystem(messages[i])

(* One pass of the coercion loop over element m: what it appends to        *)
(* `coerced` (out) and whether it raises out of the loop (raised).         *)
CoerceRaise == [raised |-> TRUE, out |-> <<>>]
CoerceTo(x) == [raised |-> FALSE, out |-> <<x>>]
CoerceSkip == [raised |-> FALSE, out |-> <<>>]

coerce_pair(m) ==
    IF ~m.valid THEN CoerceRaise
    ELSE IF Lower(m.role) \in {"user", "human"} THEN CoerceTo(HumanMessage(m.content))
    ELSE IF Lower(m.role) \in {"assistant", "ai"} THEN CoerceTo(AIMessage(m.content))
    ELSE IF Lower(m.role) \in {"system", "sys"} THEN CoerceTo(SystemMessage(m.content))
    ELSE CoerceTo(HumanMessage(m.content))

coerce_dict(m) ==
    IF ~m.valid THEN CoerceRaise ELSE CoerceTo(HumanMessage(m.content))

coerce(m) ==
    CASE m.rep = "none" -> CoerceSkip
      [] m.rep = "pair" -> coerce_pair(m)
      [] m.rep = "typed" -> CoerceTo(m)
      [] m.rep = "dict" -> coerce_dict(m)
      [] m.rep = "str" -> CoerceTo(HumanMessage(m.content))
      [] OTHER -> IF m.valid THEN CoerceTo(HumanMessage(m.content)) ELSE CoerceSkip

\* The for loop of call_model: the elements appended, or raised.
RECURSIVE coerce_loop(_)
coerce_loop(messages) ==
    IF messages = <<>> THEN CoerceSkip
    ELSE LET h == coerce(Head(messages))
             t == coerce_loop(Tail(messages))
         IN IF h.raised \/ t.raised THEN CoerceRaise
            ELSE [raised |-> FALSE, out |-> h.out \o t.out]

\* str(x) of an element, as "".join(str(x) for x in messages) sees it.
Str(m) ==
    CASE m.rep = "pair" -> "(" \o m.role \o "," \o m.content \o ")"
      [] m.rep = "dict" -> "{" \o m.role \o "," \o m.content \o "}"
      [] m.rep = "typed" -> "content=" \o m.content
      [] m.rep = "none" -> "None"
      [] OTHER -> m.content

RECURSIVE Join(_)
Join(messages) ==
    IF messages = <<>> THEN "" ELSE Str(Head(messages)) \o Join(Tail(messages))

\* A call_model that never injects the behaviour prompt.
coerced_without_prompt(messages) ==
    LET loop == coerce_loop(messages)
    IN IF loop.raised THEN messages ELSE loop.out

\* The local `coerced` when the try statement is left.
coerced_after_try(messages) ==
    LET lead == IF ~has_system_msg(messages)
                THEN <<SystemMessage(STUDY_ASSISTANT_SYSTEM_PROMPT)>> ELSE <<>>
        loop == coerce_loop(messages)
    IN IF loop.raised THEN messages ELSE lead \o loop.out

\* The argument of LLM_WITH_TOOLS.invoke.
model_input(messages) ==
    LET c == coerced_after_try(messages)
    IN IF c = <<>> THEN <<HumanMessage(Join(messages))>> ELSE c

\* A call_model that returns the sequence it sent along with the response.
call_model_writes_back(messages, response) == model_input(messages) \o <<response>>

\* What call_model returns under 'messages', given the model's response.
call_model(messages, response) == <<response>>

\* A should_continue that never takes the tools branch.
should_continue_never_tools(messages) == "end"

\* should_continue: the branch taken after the llm node.
should_continue(messages) ==
    IF messages[Len(messages)].tool_calls # <<>> THEN "tools" ELSE "end"

\* ---------------------------------------------------------------- sessions
\* session_id values a client sends; "" stands for a request without one.
Sessions == {"A", "B"}
\* str(uuid.uuid4()) of the n-th query: fresh for every request.
uuid4(n) == CASE n = 1 -> "uuid1" [] n = 2 -> "uuid2" [] n = 3 -> "uuid3" [] OTHER -> "uuid4"
Threads == Sessions \cup {"uuid1", "uuid2", "uuid3", "uuid4"}
\* request.query of the n-th query: every request carries its own text.
QueryText(n) == CASE n = 1 -> "q1" [] n = 2 -> "q2" [] n = 3 -> "q3" [] OTHER -> "q4"

\* ------------------------------------------------------- progress tracker
(* learning_state.json, one file for the whole process: exists is FALSE    *)
(* for a missing file or one without original_goal.                        *)
EmptyLearningState ==
    [exists |-> FALSE, original_goal |-> "", completed_topics |-> <<>>,
     current_status |-> "", progress_history |-> <<>>]

\* What llm_with_structure.invoke returns; used is FALSE when the analysis
\* is unavailable or fails (progress_analysis stays None).
NoAnalysis == [used |-> FALSE, completed_topics |-> <<>>, overall_status |-> ""]
Analyses ==
    {NoAnalysis,
     [used |-> TRUE, completed_topics |-> <<"t1">>, overall_status |-> "In Progress"]}

InSeq(x, s) == \E i \in 1..Len(s) : s[i] = x

\* for topic in ...: if topic not in completed_topics: append
RECURSIVE merge_topics(_, _)
merge_topics(have, new) ==
    IF new = <<>> THEN have
    ELSE merge_topics(IF InSeq(Head(new), have) THEN have ELSE Append(have, Head(new)),
                      Tail(new))

RECURSIVE JoinTopics(_)
JoinTopics(ts) == IF ts = <<>> THEN "" ELSE Head(ts) \o "," \o JoinTopics(Tail(ts))

\* A tracker that appends the topics of every update without looking them up.
track_learning_progress_appends(state, goal, analysis) ==
    LET loaded == IF state.exists THEN state
                  ELSE [exists |-> TRUE, original_goal |-> goal, completed_topics |-> <<>>,
                        current_status |-> "Just Started", progress_history |-> <<>>]
        merged == IF analysis.used
                  THEN [loaded EXCEPT
                          !.completed_topics = @ \o analysis.completed_topics,
                          !.current_status = analysis.overall_status]
                  ELSE loaded
        saved == [merged EXCEPT !.progress_history =
                    Append(@, [update |-> goal,
                               completed_topics |-> analysis.completed_topics])]
    IN [state |-> saved,
        out |-> "goal=" \o saved.original_goal \o ";topics="
                \o JoinTopics(saved.completed_topics) \o ";status=" \o saved.current_status]

\* track_learning_progress(goal): the state it saves and the summary it returns.
track_learning_progress(state, goal, analysis) ==
    LET loaded == IF state.exists THEN state
                  ELSE [exists |-> TRUE, original_goal |-> goal, completed_topics |-> <<>>,
                        current_status |-> "Just Started", progress_history |-> <<>>]
        merged == IF analysis.used
                  THEN [loaded EXCEPT
                          !.completed_topics = merge_topics(@, analysis.completed_topics),
                          !.current_status = analysis.overall_status]
                  ELSE loaded
        saved == [merged EXCEPT !.progress_history =
                    Append(@, [update |-> goal,
                               completed_topics |-> analysis.completed_topics])]
    IN [state |-> saved,
        out |-> "goal=" \o saved.original_goal \o ";topics="
                \o JoinTopics(saved.completed_topics) \o ";status=" \o saved.current_status]

\* ------------------------------------------------------------------ tools
Goals == {"g1", "g2"}
\* The tool invocation requests the modelled LLM issues: name and argument.
ToolRequests ==
    {[name |-> "learning_tracker", args |-> g] : g \in Goals}
    \cup {[name |-> "python_interpreter", args |-> "print(15*7)"]}

\* The responses of the model: an AI message with or without tool requests.
Responses(bound, mayCall) ==
    {AIResponse("ans", <<>>)}
    \cup (IF bound /\ mayCall THEN {AIResponse("", <<c>>) : c \in ToolRequests} ELSE {})

VARIABLES
    LLM_WITH_TOOLS,  \* "None", "bound" (bind_tools succeeded) or "unbound"
    executor,        \* "none", "graph_sqlite", "graph" (no checkpointer), "simple"
    chat_memory,     \* the checkpointer's store: thread_id -> messages
    node,            \* "idle", "llm", "tools", "end", "error"
    thread_id,       \* config['configurable']['thread_id'] of the running turn
    messages,        \* state['messages'] of the running turn
    given,           \* state['messages'] at the last call of call_model
    passed,          \* the argument of the last LLM_WITH_TOOLS.invoke
    invocations,     \* number of LLM_WITH_TOOLS.invoke calls made
    steps,           \* the nodes run so far in this turn
    cycles,          \* TOOLS steps run so far, over all turns
    served,          \* queries received
    learning_state,  \* learning_state.json
    tracker_out,     \* thread_id -> the last summary learning_tracker returned to it
    solo_state,      \* learning_state.json in the run where only session "A" tracks
    solo_out,        \* the last summary session "A" got in that run
    log,             \* thread_id -> every message appended for it, in order
    tool_callable_map,   \* the names of the tools_list the executor was built from, in order
    search_credentials,  \* whether a search API key is configured
    called,          \* per request of the last dispatch, the tool functions invoked for it
    tools_out,       \* the messages the last dispatch returned
    PythonREPLTool,  \* "available" or "missing" (langchain_community.tools.python.tool)
    repl,            \* "available" or "None" (langchain_experimental PythonREPL)
    execution,       \* the running or last invocation of a code-running tool
    RecursiveCharacterTextSplitter,  \* "available" or "None"
    chromadb,        \* "available" or "None"
    collection,      \* the records of the persistent collection "study_assistant"
    upload_request,  \* the last /upload request: files, session_id, what each loader did
    upload_response, \* the response to it
    index_calls,     \* every create_vector_store call: the chunks passed, whether it raised
    splitting,       \* the run of the fallback loop of split_text on one document
    answer,          \* the response of the last /search request
    clock,           \* datetime.now(), in whole seconds
    downloads,       \* every write of a file under ~/Downloads/StudyAssistant, in order
    last_call,       \* the last invocation of the formatter or the validator
    invocation       \* per worker, its invocation of the progress tracker

dispatch_vars == <<tool_callable_map, search_credentials, called, tools_out>>
sandbox_vars == <<PythonREPLTool, repl, execution>>
upload_vars == <<RecursiveCharacterTextSplitter, chromadb, collection, upload_request,
                 upload_response, index_calls>>
split_vars == <<splitting>>
answer_vars == <<answer>>
file_vars == <<clock, downloads, last_call, invocation>>
agent_vars == <<LLM_WITH_TOOLS, executor, chat_memory, node, thread_id, messages, given,
                passed, invocations, steps, cycles, served, learning_state, tracker_out,
                solo_state, solo_out, log>>

vars == <<agent_vars, dispatch_vars, sandbox_vars, upload_vars, split_vars, answer_vars, file_vars>>

\* The names of TOOLS_LIST, in its order.
TOOLS_LIST ==
    <<"python_interpreter", "course_knowledge_search", "google_realtime_search",
      "structured_formatter", "learning_tracker", "solution_validator">>

\* The parts of the state the service leaves alone until they are used: the
\* registry of TOOLS_LIST with no dispatch made, no code running, an empty store.
DispatchIdle ==
    /\ tool_callable_map = TOOLS_LIST
    /\ search_credentials = FALSE
    /\ called = <<>>
    /\ tools_out = <<>>

NoExecution ==
    [tool |-> "", runner |-> "", timed |-> FALSE, halts |-> TRUE, seconds |-> 0,
     elapsed |-> 0, status |-> "idle", out |-> ""]

SandboxIdle ==
    /\ PythonREPLTool = "available"
    /\ repl = "available"
    /\ execution = NoExecution

NoRequest == [files |-> <<>>, session_id |-> "", loads |-> <<>>, received |-> 0]
NoResponse == [status_code |-> 0, files |-> <<>>, total_chunks |-> 0]

UploadIdle ==
    /\ RecursiveCharacterTextSplitter = "available"
    /\ chromadb = "available"
    /\ collection = <<>>
    /\ upload_request = NoRequest
    /\ upload_response = NoResponse
    /\ index_calls = <<>>

\* No document is being split.
NoSplit ==
    [text |-> 0, chunk_size |-> 1, chunk_overlap |-> 0, start |-> 0, chunks |-> <<>>,
     status |-> "idle"]

SplitIdle == splitting = NoSplit

\* No query has been answered.
NoAnswer == [status_code |-> 0, index |-> 0, text |-> ""]

AnswerIdle == answer = NoAnswer

\* The threads or processes that serve requests at the same time.
Workers == {1, 2}

NoCall ==
    [tool |-> "", user_code |-> "", test_cases |-> "", expected_output |-> "",
     full_script |-> "", auto_generated |-> FALSE, status |-> "", saved |-> FALSE]
NoInvocation == [pc |-> "idle", goal |-> "", state |-> EmptyLearningState]

\* Nothing has been written and no tool is running.
FilesIdle ==
    /\ clock = 0
    /\ downloads = <<>>
    /\ last_call = NoCall
    /\ invocation = [w \in Workers |-> NoInvocation]

\* ---------------------------------------------------------------- service
\* The agent before start-up: no executor, no turn, nothing remembered.
AgentIdle ==
    /\ LLM_WITH_TOOLS = "None"
    /\ executor = "none"
    /\ chat_memory = [t \in Threads |-> <<>>]
    /\ node = "idle"
    /\ thread_id = ""
    /\ messages = <<>>
    /\ given = <<>>
    /\ passed = <<>>
    /\ invocations = 0
    /\ steps = <<>>
    /\ cycles = 0
    /\ served = 0
    /\ learning_state = EmptyLearningState
    /\ tracker_out = [t \in Threads |-> ""]
    /\ solo_state = EmptyLearningState
    /\ solo_out = ""
    /\ log = [t \in Threads |-> <<>>]

\* The module as imported, before the lifespan start-up has run.
Init ==
    /\ AgentIdle
    /\ DispatchIdle
    /\ SandboxIdle
    /\ UploadIdle
    /\ SplitIdle
    /\ AnswerIdle
    /\ FilesIdle

(* create_agent_exectutor, run once by lifespan: binds the tools (or keeps *)
(* the unbound LLM when bind_tools raises) and builds the compiled graph   *)
(* with the SQLite checkpointer, the compiled graph without one, or the    *)
(* fallback SimpleAgent.                                                   *)
create_agent_exectutor ==
    /\ executor = "none"
    /\ node = "idle"
    /\ LLM_WITH_TOOLS' \in {"bound", "unbound"}
    /\ executor' \in {"graph_sqlite", "graph", "simple"}
    /\ UNCHANGED <<chat_memory, node, thread_id, messages, given, passed, invocations,
                   steps, cycles, served, learning_state, tracker_out, solo_state, solo_out, log>>
    /\ UNCHANGED <<dispatch_vars, sandbox_vars, upload_vars, split_vars, answer_vars, file_vars>>

\* A graph that resumes no thread.
get_checkpoint_fresh(kind, memory, t) == <<>>

\* The checkpoint the compiled graph resumes thread t from.
get_checkpoint(kind, memory, t) ==
    IF kind = "graph_sqlite" THEN memory[t] ELSE <<>>

\* The checkpointer's store after the state of thread t became msgs.
put_checkpoint(kind, memory, t, msgs) ==
    IF kind = "graph_sqlite" THEN [memory EXCEPT ![t] = msgs] ELSE memory

(* The state executor.invoke starts the turn with, for the input           *)
(* {'messages': [('user', query)]}: the compiled graph runs the input      *)
(* through the add_messages reducer, which types the pair and appends it   *)
(* to the thread's checkpoint; SimpleAgent takes the input as it is and    *)
(* ignores config.                                                         *)
initial_state(kind, memory, t, query) ==
    IF kind = "simple" THEN <<Pair("user", query)>>
    ELSE get_checkpoint(kind, memory, t) \o <<HumanMessage(query)>>

\* search_rag up to executor.invoke: sid is request.session_id ("" for none).
search_rag(sid) ==
    /\ executor # "none"
    /\ node = "idle"
    /\ served < MaxQueries
    /\ LET t == IF sid # "" THEN sid ELSE uuid4(served + 1)
           start == initial_state(executor, chat_memory, t, QueryText(served + 1))
       IN /\ thread_id' = t
          /\ messages' = start
          /\ chat_memory' = put_checkpoint(executor, chat_memory, t, start)
          /\ log' = [log EXCEPT ![t] = Append(@, start[Len(start)])]
    /\ node' = "llm"
    /\ steps' = <<>>
    /\ served' = served + 1
    /\ UNCHANGED <<LLM_WITH_TOOLS, executor, given, passed, invocations, cycles,
                   learning_state, tracker_out, solo_state, solo_out>>
    /\ UNCHANGED <<dispatch_vars, sandbox_vars, upload_vars, split_vars, answer_vars, file_vars>>

\* A loop that runs the tools step after its first LLM call whatever it returned.
after_llm_always_tools(kind, done, msgs) ==
    IF Len(done) = 1 THEN "tools" ELSE "end"

(* Where control goes after the llm node.  The graph follows the           *)
(* conditional edge; SimpleAgent.invoke asks should_continue after its     *)
(* first LLM call only and returns after the second; a bare call of        *)
(* call_model is followed by a second one.                                 *)
after_llm(kind, done, msgs) ==
    CASE kind \in {"graph_sqlite", "graph"} -> should_continue(msgs)
      [] kind = "simple" -> IF Len(done) = 1 THEN should_continue(msgs) ELSE "end"
      [] OTHER -> IF Len(done) < 2 THEN "llm" ELSE "end"

\* call_model returns response and its messages are appended to the state.
llm_step(response) ==
    /\ node = "llm"
    /\ LLM_WITH_TOOLS # "None"
    /\ given' = messages
    /\ passed' = model_input(messages)
    /\ invocations' = invocations + 1
    /\ messages' = messages \o call_model(messages, response)
    /\ steps' = Append(steps, "llm")
    /\ node' = after_llm(executor, steps', messages')
    /\ chat_memory' = put_checkpoint(executor, chat_memory, thread_id, messages')
    /\ log' = IF thread_id = "" THEN log
              ELSE [log EXCEPT ![thread_id] = @ \o call_model(messages, response)]
    /\ UNCHANGED <<LLM_WITH_TOOLS, executor, thread_id, cycles, served, learning_state,
                   tracker_out, solo_state, solo_out>>
    /\ UNCHANGED <<dispatch_vars, sandbox_vars, upload_vars, split_vars, answer_vars, file_vars>>

\* The llm node, with the model of the service answering.
llm_node(response) ==
    /\ response \in Responses(LLM_WITH_TOOLS = "bound", cycles < MaxCycles)
    /\ llm_step(response)

\* A call_model that tests LLM_WITH_TOOLS only when it comes to invoke it.
llm_uninitialized_after_coercion ==
    /\ node = "llm"
    /\ LLM_WITH_TOOLS = "None"
    /\ given' = messages
    /\ passed' = model_input(messages)
    /\ node' = "error"
    /\ UNCHANGED <<LLM_WITH_TOOLS, executor, chat_memory, thread_id, messages,
                   invocations, steps, cycles, served, learning_state, tracker_out,
                   solo_state, solo_out, log>>
    /\ UNCHANGED <<dispatch_vars, sandbox_vars, upload_vars, split_vars, answer_vars, file_vars>>

\* call_model with LLM_WITH_TOOLS unset: RuntimeError at its first statement.
llm_uninitialized ==
    /\ node = "llm"
    /\ LLM_WITH_TOOLS = "None"
    /\ node' = "error"
    /\ UNCHANGED <<LLM_WITH_TOOLS, executor, chat_memory, thread_id, messages, given,
                   passed, invocations, steps, cycles, served, learning_state, tracker_out,
                   solo_state, solo_out, log>>
    /\ UNCHANGED <<dispatch_vars, sandbox_vars, upload_vars, split_vars, answer_vars, file_vars>>

\* LLM_WITH_TOOLS.invoke raises (the provider fails): nothing is returned.
llm_raises ==
    /\ node = "llm"
    /\ LLM_WITH_TOOLS # "None"
    /\ given' = messages
    /\ passed' = model_input(messages)
    /\ invocations' = invocations + 1
    /\ node' = "error"
    /\ UNCHANGED <<LLM_WITH_TOOLS, executor, chat_memory, thread_id, messages, steps,
                   cycles, served, learning_state, tracker_out, solo_state, solo_out, log>>
    /\ UNCHANGED <<dispatch_vars, sandbox_vars, upload_vars, split_vars, answer_vars, file_vars>>

(* rag_tool_query: json.dumps of the answer and of the context retrieved,  *)
(* here from course notes that hold a quiz with its "quiz_title".          *)
rag_tool_query(query) ==
    "{\"answer\": \"a(" \o query \o ")\", \"context\": \"quiz_title\"}"

(* The function behind a registered tool, applied to one argument: its     *)
(* text and the learning state it leaves.  Only the progress tracker       *)
(* keeps state between invocations.                                        *)
tool_function(name, arg, state, analysis) ==
    IF name = "learning_tracker" THEN track_learning_progress(state, arg, analysis)
    ELSE IF name = "course_knowledge_search" THEN [state |-> state, out |-> rag_tool_query(arg)]
    ELSE [state |-> state, out |-> "out(" \o arg \o ")"]

\* The message a tool result is wrapped in: ToolNode makes a ToolMessage,
\* ToolsState.run a HumanMessage.
tool_result_message(kind, text) ==
    IF kind = "simple" THEN HumanMessage(text) ELSE ToolMessage(text)

(* The requests of the trailing AI message run in order against the        *)
(* learning state; analyses[i] is what the tracker's own LLM call answers  *)
(* in the i-th request.  Gives the texts and the state left.               *)
RECURSIVE run_calls(_, _, _, _)
run_calls(calls, i, state, analyses) ==
    IF i > Len(calls) THEN [state |-> state, outs |-> <<>>]
    ELSE LET name == calls[i].name
             r == IF InSeq(name, TOOLS_LIST)
                  THEN tool_function(name, calls[i].args, state, analyses[i])
                  ELSE [state |-> state, out |-> ""]
             rest == run_calls(calls, i + 1, r.state, analyses)
         IN [state |-> rest.state, outs |-> <<r.out>> \o rest.outs]

\* The run of the same requests where only the tracker calls of session "A" happen.
LastTrackerOut(calls, outs, default) ==
    LET idx == {i \in 1..Len(calls) : calls[i].name = "learning_tracker"}
    IN IF idx = {} THEN default
       ELSE outs[CHOOSE i \in idx : \A j \in idx : j <= i]

\* The tools node: every request of the trailing AI message is dispatched and
\* the results are appended in order.
tools_node ==
    /\ node = "tools"
    /\ LET calls == messages[Len(messages)].tool_calls
       IN \E analyses \in [1..Len(calls) -> Analyses] :
            LET run == run_calls(calls, 1, learning_state, analyses)
                solo == run_calls(calls, 1, solo_state, analyses)
                results == [i \in 1..Len(calls) |->
                              tool_result_message(executor, run.outs[i])]
            IN /\ messages' = messages \o results
               /\ learning_state' = run.state
               /\ tracker_out' = [tracker_out EXCEPT ![thread_id] =
                                    LastTrackerOut(calls, run.outs, @)]
               /\ solo_state' = IF thread_id = "A" THEN solo.state ELSE solo_state
               /\ solo_out' = IF thread_id = "A"
                              THEN LastTrackerOut(calls, solo.outs, solo_out)
                              ELSE solo_out
               /\ log' = [log EXCEPT ![thread_id] = @ \o results]
    /\ steps' = Append(steps, "tools")
    /\ cycles' = cycles + 1
    /\ node' = "llm"
    /\ chat_memory' = put_checkpoint(executor, chat_memory, thread_id, messages')
    /\ UNCHANGED <<LLM_WITH_TOOLS, executor, thread_id, given, passed, invocations,
                   served>>
    /\ UNCHANGED <<dispatch_vars, sandbox_vars, upload_vars, split_vars, answer_vars, file_vars>>

\* The largest index of S, 0 for none: the first hit of a reversed scan.
last_index(S) == IF S = {} THEN 0 ELSE CHOOSE i \in S : \A j \in S : j <= i

(* content_str.strip().startswith('{') and one of list_title, quiz_title,  *)
(* deck_title, schedule_title in content_str: of the texts of the model    *)
(* those of rag_tool_query are such.                                       *)
looks_structured(content) ==
    content \in {rag_tool_query(q) : q \in {QueryText(n) : n \in 1..4}}

(* The message search_rag answers with, out of result['messages'], and its *)
(* text: the last structured tool output when no AI message has content,   *)
(* else the last AI message with content, else the last message.           *)
extract_answer(msgs) ==
    LET tool_output == last_index({i \in 1..Len(msgs) :
                          /\ msgs[i].rep = "typed"
                          /\ msgs[i].role \in {"tool", "human"}
                          /\ msgs[i].content # ""
                          /\ looks_structured(msgs[i].content)})
        final_message == last_index({i \in 1..Len(msgs) :
                          /\ msgs[i].rep = "typed"
                          /\ msgs[i].role = "ai"
                          /\ msgs[i].content # ""})
        chosen == IF tool_output > 0 /\ final_message = 0 THEN tool_output
                  ELSE IF final_message = 0 THEN Len(msgs)
                  ELSE final_message
    IN [status_code |-> 200, index |-> chosen, text |-> msgs[chosen].content]

(* executor.invoke has returned or raised: search_rag answers with the     *)
(* text it extracts from the state, or with HTTP 500, and the service      *)
(* waits for the next request.                                             *)
respond ==
    /\ node \in {"end", "error"}
    /\ executor # "none"
    /\ node' = "idle"
    /\ answer' = IF node = "error" THEN [status_code |-> 500, index |-> 0, text |-> ""]
                 ELSE extract_answer(messages)
    /\ UNCHANGED <<LLM_WITH_TOOLS, executor, chat_memory, thread_id, messages, given,
                   passed, invocations, steps, cycles, served, learning_state, tracker_out,
                   solo_state, solo_out, log>>
    /\ UNCHANGED <<dispatch_vars, sandbox_vars, upload_vars, split_vars, file_vars>>

Next ==
    \/ create_agent_exectutor
    \/ \E sid \in Sessions \cup {""} : search_rag(sid)
    \/ \E response \in Responses(TRUE, TRUE) : llm_node(response)
    \/ llm_raises
    \/ tools_node
    \/ respond

Spec == Init /\ [][Next]_vars

\* ------------------------------------------------------ the answer returned
(* The responses of a model that may also answer with empty content, and   *)
(* that searches the course notes.                                         *)
AnswerResponses(mayCall) ==
    {AIResponse("ans", <<>>), AIResponse("", <<>>)}
    \cup (IF mayCall
          THEN {AIResponse("", <<[name |-> "course_knowledge_search", args |-> q]>>) :
                  q \in {QueryText(1), QueryText(2)}}
          ELSE {})

\* The llm node, with that model answering.
answer_llm(response) ==
    /\ response \in AnswerResponses(LLM_WITH_TOOLS = "bound" /\ cycles < MaxCycles)
    /\ llm_step(response)

NextAnswer ==
    \/ create_agent_exectutor
    \/ \E sid \in Sessions \cup {""} : search_rag(sid)
    \/ \E response \in AnswerResponses(TRUE) : answer_llm(response)
    \/ llm_raises
    \/ tools_node
    \/ respond

SpecAnswer == Init /\ [][NextAnswer]_vars

\* ------------------------------------------------------ call_model alone
\* The message representations call_model is applied to.
PairRoles == {"user", "Human", "assistant", "AI", "system", "SYS", "tutor"}
DictRoles == {"", "assistant", "system"}
RawMessages ==
    {SystemMessage("s"), HumanMessage("h"), AIMessage("a"), ToolMessage("t")}
    \cup {Msg("pair", r, "p", TRUE, <<>>) : r \in PairRoles}
    \cup {Msg("pair", r, "None", FALSE, <<>>) : r \in PairRoles}
    \cup {Msg("dict", r, "d", TRUE, <<>>) : r \in DictRoles}
    \cup {Msg("dict", r, "None", FALSE, <<>>) : r \in DictRoles}
    \cup {Msg("str", "", "x", TRUE, <<>>),
          Msg("obj", "", "o", TRUE, <<>>), Msg("obj", "", "", FALSE, <<>>),
          Msg("none", "", "", TRUE, <<>>)}

SeqsUpTo(S, n) == UNION {[1..k -> S] : k \in 0..n}

\* call_model called directly on a conversation state, before or after the
\* executor has set LLM_WITH_TOOLS.
InitCallModel ==
    /\ LLM_WITH_TOOLS \in {"None", "bound"}
    /\ executor = "none"
    /\ chat_memory = [t \in Threads |-> <<>>]
    /\ node = "llm"
    /\ thread_id = ""
    /\ messages \in SeqsUpTo(RawMessages, MaxLen)
    /\ given = <<>>
    /\ passed = <<>>
    /\ invocations = 0
    /\ steps = <<>>
    /\ cycles = 0
    /\ served = 0
    /\ learning_state = EmptyLearningState
    /\ tracker_out = [t \in Threads |-> ""]
    /\ solo_state = EmptyLearningState
    /\ solo_out = ""
    /\ log = [t \in Threads |-> <<>>]
    /\ DispatchIdle
    /\ SandboxIdle
    /\ UploadIdle
    /\ SplitIdle
    /\ AnswerIdle
    /\ FilesIdle

NextCallModel ==
    \/ \E response \in Responses(TRUE, TRUE) : llm_node(response)
    \/ llm_uninitialized
    \/ llm_raises

SpecCallModel == InitCallModel /\ [][NextCallModel]_vars

\* ------------------------------------------------------------ tool dispatch
\* Requests carried by one AI message in SpecDispatch.
MaxCalls == 2

\* The name of a request that has none: call.get('name') or
\* call.get('tool_name') is None, also for an empty name.
NoName == ""

\* name in tname, on the names of the model.
Contains(tname, name) ==
    \/ name = tname
    \/ name = "search" /\ tname \in {"course_knowledge_search", "google_realtime_search"}

(* The tools_list create_agent_exectutor is given: TOOLS_LIST as api.py     *)
(* passes it, the web search alone, and two lists with a tool whose name,  *)
(* "search", is part of another tool's name.  Names are distinct, so the   *)
(* dictionary tool_callable_map holds them in the order of the list.       *)
ToolLists ==
    {TOOLS_LIST, <<"google_realtime_search">>,
     <<"search", "course_knowledge_search">>, <<"course_knowledge_search", "search">>}

(* The argument payload of a request and the values in it: None, a string, *)
(* a number (text is its str()) or a dict, whose items are its keys and    *)
(* values in insertion order.                                              *)
Absent == [kind |-> "none", text |-> "", items |-> <<>>]
StrValue(t) == [kind |-> "str", text |-> t, items |-> <<>>]
IntValue(t) == [kind |-> "int", text |-> t, items |-> <<>>]
Mapping(items) == [kind |-> "dict", text |-> "", items |-> items]
Item(key, value) == [key |-> key, value |-> value]

\* bool(value): None, "", 0 and {} are false.
truthy(v) ==
    ~ \/ v.kind = "none"
      \/ v.kind = "str" /\ v.text = ""
      \/ v.kind = "int" /\ v.text = "0"
      \/ v.kind = "dict" /\ v.items = <<>>

\* json.dumps(value) and str(value).
RECURSIVE dumps(_, _)
dumps(v, quote) ==
    LET RECURSIVE items(_)
        items(i) ==
            IF i > Len(v.items) THEN ""
            ELSE (IF i > 1 THEN ", " ELSE "")
                 \o quote \o v.items[i].key \o quote \o ": "
                 \o dumps(v.items[i].value, quote) \o items(i + 1)
    IN CASE v.kind = "none" -> IF quote = "'" THEN "None" ELSE "null"
         [] v.kind = "str" -> quote \o v.text \o quote
         [] v.kind = "int" -> v.text
         [] OTHER -> "{" \o items(1) \o "}"
json_dumps(v) == dumps(v, "\"")
str(v) == IF v.kind = "str" THEN v.text ELSE dumps(v, "'")

\* The value of out in ToolsState.run, and of inp once normalised: None or a text.
None == [is_none |-> TRUE, text |-> ""]
Text(t) == [is_none |-> FALSE, text |-> t]

(* inp of a request that is a dict with the keys name and args:            *)
(* call.get('input') or call.get('arguments') or call.get('args') or       *)
(* call.get('inputs').                                                     *)
call_get_inp(call) == IF truthy(call.args) THEN call.args ELSE Absent

\* The keys tried on a dict payload, in this order.
PrimaryFields == <<"inp", "input", "query", "text">>

\* for k in (...): if k in inp: inp = inp[k]; break / else: inp = json.dumps(inp)
primary_field(inp) ==
    LET has(k) == \E i \in 1..Len(inp.items) : inp.items[i].key = k
        found == {n \in 1..Len(PrimaryFields) : has(PrimaryFields[n])}
    IN IF found = {} THEN StrValue(json_dumps(inp))
       ELSE LET k == PrimaryFields[CHOOSE n \in found : \A m \in found : n <= m]
            IN inp.items[CHOOSE i \in 1..Len(inp.items) : inp.items[i].key = k].value

\* The argument ToolsState.run passes to the tool function for a request.
normalized_inp(call) ==
    LET inp == call_get_inp(call)
        picked == IF inp.kind = "dict" THEN primary_field(inp) ELSE inp
    IN IF picked.kind = "none" THEN None ELSE Text(str(picked))

Outcomes == {"text", "error_text", "raise"}

(* What a call of the raw tool function can do: return its text, return a  *)
(* text that reports a failure it caught itself, or raise.  The web search *)
(* without credentials is _missing_search, which always raises; with       *)
(* credentials the provider may fail; the other tools of TOOLS_LIST catch  *)
(* their failures; "search" stands for a tool of the caller's own.         *)
tool_outcomes(tname, credentials) ==
    CASE tname = "google_realtime_search" ->
            IF credentials THEN {"text", "raise"} ELSE {"raise"}
      [] tname = "search" -> {"text", "raise"}
      [] OTHER -> {"text", "error_text"}

\* The text a tool function returns when called with inp.
tool_text(tname, inp, outcome) ==
    IF outcome = "error_text" THEN "error in " \o tname
    ELSE tname \o "(" \o (IF inp.is_none THEN "None" ELSE inp.text) \o ")"

\* str(e) of the exception a tool function raises.
exception_text(tname, credentials) ==
    IF tname = "google_realtime_search" /\ ~credentials
    THEN "No search API credentials found"
    ELSE tname \o " failed"

\* The wrapper to_langchain_tools puts around a tool function.
wrapper(tname, query, outcome, credentials) ==
    IF outcome = "raise"
    THEN "Tool execution error: " \o exception_text(tname, credentials)
    ELSE tool_text(tname, query, outcome)

\* try: out = tfunc(inp) / except Exception: out = None
try_call(tname, inp, outcome) ==
    [call |-> [tool |-> tname, inp |-> inp, outcome |-> outcome],
     out |-> IF outcome = "raise" THEN None ELSE Text(tool_text(tname, inp, outcome))]

\* The first entry of the dictionary, in insertion order, whose name holds
\* the requested one; 0 when there is none.
first_match(name, map) ==
    LET hits == {i \in 1..Len(map) : Contains(map[i], name)}
    IN IF hits = {} THEN 0 ELSE CHOOSE i \in hits : \A j \in hits : i <= j

(* One request of the trailing AI message, as ToolsState.run serves it:    *)
(* the invocations made, in order, and the value of out.  oc[k] is what    *)
(* the k-th invocation made for this request does.                         *)
dispatch_call(call, map, oc) ==
    LET name == call.name
        inp == normalized_inp(call)
    IN IF name # NoName /\ InSeq(name, map)
       THEN LET r == try_call(name, inp, oc[1])
            IN [calls |-> <<r.call>>, out |-> r.out]
       ELSE LET k == IF name # NoName THEN first_match(name, map) ELSE 0
                a == IF k > 0 THEN <<try_call(map[k], inp, oc[1])>> ELSE <<>>
                out1 == IF k > 0 THEN a[1].out ELSE None
                b == IF out1.is_none /\ Len(map) = 1
                     THEN <<try_call(map[1], inp, oc[Len(a) + 1])>>
                     ELSE <<>>
                out2 == IF b # <<>> THEN b[1].out ELSE out1
            IN [calls |-> [i \in 1..Len(a \o b) |-> (a \o b)[i].call], out |-> out2]

\* out_text: "" for None.
out_text(out) == IF out.is_none THEN "" ELSE out.text

\* ToolsState.run on the requests of the trailing message: per request the
\* invocations made and the message returned for it.
ToolsState_run(calls, map, ocs) ==
    IF calls = <<>> THEN <<>>
    ELSE [i \in 1..Len(calls) |->
            LET r == dispatch_call(calls[i], map, ocs[i])
            IN [calls |-> r.calls, message |-> HumanMessage(out_text(r.out))]]

(* ToolNode over the converted tools: a request whose name is a converted  *)
(* tool's runs its wrapper on the one value of the request's payload; any  *)
(* other name is answered with an error message naming it.                 *)
ToolNode_run(calls, tools, ocs, credentials) ==
    [i \in 1..Len(calls) |->
        LET name == calls[i].name
            query == Text(str(calls[i].args.items[1].value))
        IN IF InSeq(name, tools)
           THEN [calls |-> <<[tool |-> name, inp |-> query, outcome |-> ocs[i][1]]>>,
                 message |-> ToolMessage(wrapper(name, query, ocs[i][1], credentials))]
           ELSE [calls |-> <<>>,
                 message |-> ToolMessage("Error: " \o name \o " is not a valid tool")]]

\* Every invocation of run does what its tool can do.
Possible(run, credentials) ==
    \A i \in 1..Len(run) : \A k \in 1..Len(run[i].calls) :
        run[i].calls[k].outcome \in tool_outcomes(run[i].calls[k].tool, credentials)

\* The state after a dispatch that made run.
dispatched(run) ==
    LET out == [i \in 1..Len(run) |-> run[i].message]
    IN /\ called' = [i \in 1..Len(run) |-> run[i].calls]
       /\ tools_out' = out
       /\ messages' = messages \o out
       /\ steps' = Append(steps, "tools")
       /\ cycles' = cycles + 1
       /\ UNCHANGED <<LLM_WITH_TOOLS, executor, chat_memory, thread_id, given, passed,
                      invocations, served, learning_state, tracker_out, solo_state,
                      solo_out, log, tool_callable_map, search_credentials>>
       /\ UNCHANGED <<sandbox_vars, upload_vars, split_vars, answer_vars, file_vars>>

(* The tools step of the fallback executor: ToolsState.run, called by      *)
(* SimpleAgent.invoke after its first LLM call, which extends the state    *)
(* with what it returns and goes on to the second LLM call; or called on   *)
(* a state directly, and then it returns to its caller.                    *)
SimpleAgent_tools ==
    /\ node = "tools"
    /\ executor = "simple"
    /\ LET calls == messages[Len(messages)].tool_calls
       IN \E ocs \in [1..Len(calls) -> [1..2 -> Outcomes]] :
            LET run == ToolsState_run(calls, tool_callable_map, ocs)
            IN Possible(run, search_credentials) /\ dispatched(run)
    /\ node' = IF steps = <<>> THEN "end" ELSE "llm"

\* The tools node of the compiled graph.
ToolNode_tools ==
    /\ node = "tools"
    /\ executor = "graph"
    /\ LET calls == messages[Len(messages)].tool_calls
       IN \E ocs \in [1..Len(calls) -> [1..2 -> Outcomes]] :
            LET run == ToolNode_run(calls, tool_callable_map, ocs, search_credentials)
            IN Possible(run, search_credentials) /\ dispatched(run)
    /\ node' = "llm"

\* The requests the model of SpecDispatch makes.
DispatchNames == {"google_realtime_search", "search", "nope", NoName}
DispatchRequests ==
    {[name |-> n, args |-> Mapping(<<Item("query", StrValue("q"))>>)] : n \in DispatchNames}
DispatchCalls == SeqsUpTo(DispatchRequests, MaxCalls)

(* The payloads ToolsState.run is called with directly: dicts with and     *)
(* without the keys it looks for, in either order, with values that are    *)
(* strings or not; the empty dict; strings, numbers and None.              *)
Payloads ==
    {Mapping(<<Item("query", StrValue("q"))>>),
     Mapping(<<Item("text", StrValue("t")), Item("query", StrValue("q"))>>),
     Mapping(<<Item("input", StrValue("i")), Item("inp", StrValue("p"))>>),
     Mapping(<<Item("code", StrValue("c"))>>),
     Mapping(<<Item("query", IntValue("5"))>>),
     Mapping(<<Item("query", Absent)>>),
     Mapping(<<Item("input", Mapping(<<Item("a", StrValue("b"))>>))>>),
     Mapping(<<>>),
     StrValue("s"), StrValue(""), IntValue("5"), IntValue("0"), Absent}
PayloadCalls == {<<[name |-> "google_realtime_search", args |-> p]>> : p \in Payloads}
DispatchResponses(mayCall) ==
    {AIResponse("ans", <<>>)}
    \cup (IF mayCall THEN {AIResponse("", c) : c \in DispatchCalls \ {<<>>}} ELSE {})

\* The llm step of a turn whose model asks for tools once.
dispatch_llm(response) ==
    /\ response \in DispatchResponses(cycles = 0)
    /\ llm_step(response)

(* A turn of either executor over one of the tool lists, about to make its *)
(* first LLM call; or ToolsState.run about to be called on a state whose   *)
(* trailing AI message carries any number of requests, none included.      *)
InitDispatch ==
    /\ LLM_WITH_TOOLS = "bound"
    /\ executor \in {"simple", "graph"}
    /\ chat_memory = [t \in Threads |-> <<>>]
    /\ thread_id = ""
    /\ \/ /\ node = "llm"
          /\ messages = initial_state(executor, chat_memory, thread_id, QueryText(1))
       \/ /\ executor = "simple"
          /\ node = "tools"
          /\ messages \in {<<Pair("user", QueryText(1)), AIResponse("", c)>> :
                             c \in DispatchCalls \cup PayloadCalls}
    /\ given = <<>>
    /\ passed = <<>>
    /\ invocations = 0
    /\ steps = <<>>
    /\ cycles = 0
    /\ served = 1
    /\ learning_state = EmptyLearningState
    /\ tracker_out = [t \in Threads |-> ""]
    /\ solo_state = EmptyLearningState
    /\ solo_out = ""
    /\ log = [t \in Threads |-> <<>>]
    /\ tool_callable_map \in ToolLists
    /\ search_credentials \in BOOLEAN
    /\ called = <<>>
    /\ tools_out = <<>>
    /\ SandboxIdle
    /\ UploadIdle
    /\ SplitIdle
    /\ AnswerIdle
    /\ FilesIdle

NextDispatch ==
    \/ \E response \in DispatchResponses(TRUE) : dispatch_llm(response)
    \/ SimpleAgent_tools
    \/ ToolNode_tools

SpecDispatch == InitDispatch /\ [][NextDispatch]_vars

\* ------------------------------------------------------ code-running tools
\* timeout of _run_subprocess_python, in seconds.
DefaultTimeout == 5
\* Seconds an invocation is followed for in SpecSandbox.
MaxSeconds == 7

\* User code: whether it ends, and after how many seconds.
Codes ==
    {[halts |-> TRUE, seconds |-> n] : n \in 0..MaxSeconds}
    \cup {[halts |-> FALSE, seconds |-> 0]}

\* The caller starts waiting for runner to run code.
start(tool, runner, timed, code) ==
    [tool |-> tool, runner |-> runner, timed |-> timed, halts |-> code.halts,
     seconds |-> code.seconds, elapsed |-> 0, status |-> "waiting", out |-> ""]

\* subprocess.run([sys.executable, "-c", code], ..., timeout=timeout)
run_subprocess_python(code) == start("python_interpreter", "subprocess", TRUE, code)

(* code_tool_query: PythonREPLTool().run(code) when the class imports,     *)
(* which runs the code with no time limit; the subprocess otherwise.       *)
code_tool_query(code) ==
    /\ execution.status \in {"idle", "returned"}
    /\ execution' = IF PythonREPLTool = "available"
                    THEN start("python_interpreter", "PythonREPLTool", FALSE, code)
                    ELSE run_subprocess_python(code)
    /\ UNCHANGED <<PythonREPLTool, repl>>
    /\ UNCHANGED <<agent_vars, dispatch_vars, upload_vars, split_vars, answer_vars, file_vars>>

(* validate_code_solution up to repl.run(full_script): without a REPL it   *)
(* returns an error text at once; with one it runs the script through      *)
(* PythonREPL.run, whose timeout is left at None.                          *)
validate_code_solution(code) ==
    /\ execution.status \in {"idle", "returned"}
    /\ execution' = IF repl = "None"
                    THEN [start("solution_validator", "", FALSE, code) EXCEPT
                            !.status = "returned",
                            !.out = "Error: Python REPL not available"]
                    ELSE start("solution_validator", "PythonREPL", FALSE, code)
    /\ UNCHANGED <<PythonREPLTool, repl>>
    /\ UNCHANGED <<agent_vars, dispatch_vars, upload_vars, split_vars, answer_vars, file_vars>>

\* The code has ended.
Finished == execution.halts /\ execution.elapsed >= execution.seconds
\* The time limit of the runner, if it has one, is reached.
Expired == execution.timed /\ execution.elapsed >= DefaultTimeout

\* A second passes while the caller waits.
tick ==
    /\ execution.status = "waiting"
    /\ ~Finished
    /\ ~Expired
    /\ execution.elapsed < MaxSeconds
    /\ execution' = [execution EXCEPT !.elapsed = @ + 1]
    /\ UNCHANGED <<PythonREPLTool, repl>>
    /\ UNCHANGED <<agent_vars, dispatch_vars, upload_vars, split_vars, answer_vars, file_vars>>

\* The code ends and the tool returns its output.
code_returns ==
    /\ execution.status = "waiting"
    /\ Finished
    /\ ~Expired
    /\ execution' = [execution EXCEPT !.status = "returned", !.out = "output"]
    /\ UNCHANGED <<PythonREPLTool, repl>>
    /\ UNCHANGED <<agent_vars, dispatch_vars, upload_vars, split_vars, answer_vars, file_vars>>

\* subprocess.TimeoutExpired: the tool returns the timeout text.
timeout_expired ==
    /\ execution.status = "waiting"
    /\ Expired
    /\ execution' = [execution EXCEPT !.status = "returned",
                                      !.out = "ERROR: Python execution timed out"]
    /\ UNCHANGED <<PythonREPLTool, repl>>
    /\ UNCHANGED <<agent_vars, dispatch_vars, upload_vars, split_vars, answer_vars, file_vars>>

\* The two tools called, one invocation after the other, in an environment
\* where each of the two REPL classes imports or does not.
InitSandbox ==
    /\ AgentIdle
    /\ DispatchIdle
    /\ PythonREPLTool \in {"available", "missing"}
    /\ repl \in {"available", "None"}
    /\ execution = NoExecution
    /\ UploadIdle
    /\ SplitIdle
    /\ AnswerIdle
    /\ FilesIdle

NextSandbox ==
    \/ \E code \in Codes : code_tool_query(code)
    \/ \E code \in Codes : validate_code_solution(code)
    \/ tick
    \/ code_returns
    \/ timeout_expired

SpecSandbox == InitSandbox /\ [][NextSandbox]_vars

\* ------------------------------------------------------------------ upload
\* Files uploaded in one behaviour of SpecUpload, over all its requests.
MaxFiles == 3
\* split_text(all_documents, chunk_size=1000, chunk_overlap=200)
chunk_size == 1000
chunk_overlap == 200

Filenames == {"notes.txt", "slides.pdf", "essay.docx", "image.png"}

\* os.path.splitext(file.filename)[1]
suffix(filename) ==
    CASE filename = "notes.txt" -> ".txt"
      [] filename = "slides.pdf" -> ".pdf"
      [] filename = "essay.docx" -> ".docx"
      [] OTHER -> ".png"

\* The loader the filename's ending selects.
loader(filename) ==
    CASE suffix(filename) = ".txt" -> "load_text"
      [] suffix(filename) = ".pdf" -> "load_pdf"
      [] suffix(filename) \in {".docx", ".doc"} -> "load_docx"
      [] OTHER -> "unsupported"

\* What a loader does: it raises, or returns documents of these lengths, in
\* characters.
Raised == [raised |-> TRUE, lengths |-> <<>>]
Loaded(lengths) == [raised |-> FALSE, lengths |-> lengths]

(* The text file loads as one document; the PDF loads as two pages or its  *)
(* loader fails; load_docx raises, Doc2txtLoader being None; no loader is  *)
(* called for the image.                                                   *)
load_outcomes(filename) ==
    CASE filename = "notes.txt" -> {Loaded(<<1500>>)}
      [] filename = "slides.pdf" -> {Loaded(<<600, 1200>>), Raised}
      [] filename = "essay.docx" -> {Raised}
      [] OTHER -> {Loaded(<<>>)}

\* A text, by where it comes from: the characters from..to of a page of a file.
TextOf(filename, page, from, to) ==
    [source |-> filename, page |-> page, from |-> from, to |-> to]

\* doc.metadata['session_id'] = session_id; doc.metadata['source_file'] = file.filename
tag(session_id, filename) ==
    {<<"session_id", session_id>>, <<"source_file", filename>>}

\* An upload that reports a file without a loader as loaded.
file_result_accepts_all(filename, load, session_id) ==
    IF load.raised
    THEN [entry |-> [filename |-> filename, status |-> "error", chunks |-> 0,
                     error |-> "loader failed"],
          documents |-> <<>>]
    ELSE [entry |-> [filename |-> filename, status |-> "success",
                     chunks |-> Len(load.lengths), error |-> ""],
          documents |-> [p \in 1..Len(load.lengths) |->
                           [page_content |-> TextOf(filename, p, 0, load.lengths[p]),
                            metadata |-> tag(session_id, filename)]]]

\* One pass of the loop of upload_files: the entry of the report and the
\* tagged documents the file adds.
file_result(filename, load, session_id) ==
    IF loader(filename) = "unsupported"
    THEN [entry |-> [filename |-> filename, status |-> "error", chunks |-> 0,
                     error |-> "Unsupported file type: " \o suffix(filename)],
          documents |-> <<>>]
    ELSE IF load.raised
    THEN [entry |-> [filename |-> filename, status |-> "error", chunks |-> 0,
                     error |-> "loader failed"],
          documents |-> <<>>]
    ELSE [entry |-> [filename |-> filename, status |-> "success",
                     chunks |-> Len(load.lengths), error |-> ""],
          documents |-> [p \in 1..Len(load.lengths) |->
                           [page_content |-> TextOf(filename, p, 0, load.lengths[p]),
                            metadata |-> tag(session_id, filename)]]]

\* The loop over the files, from the i-th on: processed_files and all_documents.
RECURSIVE process_files(_, _, _, _)
process_files(files, loads, session_id, i) ==
    IF i > Len(files) THEN [processed_files |-> <<>>, all_documents |-> <<>>]
    ELSE LET r == file_result(files[i], loads[i], session_id)
             rest == process_files(files, loads, session_id, i + 1)
         IN [processed_files |-> <<r.entry>> \o rest.processed_files,
             all_documents |-> r.documents \o rest.all_documents]

\* The windows the splitter cuts a text of len characters into, from at on.
RECURSIVE windows(_, _, _, _)
windows(len, at, size, overlap) ==
    IF at >= len THEN <<>>
    ELSE LET end == IF at + size < len THEN at + size ELSE len
         IN <<[from |-> at, to |-> end]>>
            \o windows(len, IF end < len THEN end - overlap ELSE end, size, overlap)

(* split_text.  Without langchain's splitter every chunk is a new document *)
(* with empty metadata; RecursiveCharacterTextSplitter.split_documents     *)
(* copies the metadata of the document to each of its chunks, and its      *)
(* chunks are taken to be the same windows.                                *)
RECURSIVE split_text(_, _, _, _)
split_text(documents, size, overlap, splitter) ==
    IF documents = <<>> THEN <<>>
    ELSE LET doc == Head(documents)
             t == doc.page_content
             w == windows(t.to, 0, size, overlap)
         IN [k \in 1..Len(w) |->
               [page_content |-> TextOf(t.source, t.page, w[k].from, w[k].to),
                metadata |-> IF splitter = "None" THEN {} ELSE doc.metadata]]
            \o split_text(Tail(documents), size, overlap, splitter)

(* create_vector_store on the persistent collection coll.  The records are *)
(* the texts under the ids doc_0, doc_1, ... of this call, with no         *)
(* metadata.  Without chromadb the in-memory collection's add() takes no   *)
(* embeddings argument and the call raises.  For ids the collection holds  *)
(* already chromadb, by its version, skips the records or raises.          *)
create_vector_store(documents, coll, lib, on_duplicate, call) ==
    LET records == [i \in 1..Len(documents) |->
                      [id |-> i - 1, document |-> documents[i].page_content,
                       metadata |-> {}, call |-> call]]
        held == {coll[j].id : j \in 1..Len(coll)}
        IsNew(r) == r.id \notin held
        new == SelectSeq(records, IsNew)
    IN IF lib = "None" THEN [raised |-> TRUE, collection |-> coll]
       ELSE IF new = records THEN [raised |-> FALSE, collection |-> coll \o records]
       ELSE IF on_duplicate = "raise" THEN [raised |-> TRUE, collection |-> coll]
       ELSE [raised |-> FALSE, collection |-> coll \o new]

\* Files received so far.
files_received == upload_request.received

(* upload_files: every file is loaded and reported, the documents loaded   *)
(* are split and indexed, and the report is returned; an exception of the  *)
(* splitting or the indexing becomes HTTP 500.                             *)
upload_files(files, session_id, loads, on_duplicate) ==
    /\ files # <<>>
    /\ files_received + Len(files) <= MaxFiles
    /\ \A i \in 1..Len(files) : loads[i] \in load_outcomes(files[i])
    /\ LET done == process_files(files, loads, session_id, 1)
           chunks == split_text(done.all_documents, chunk_size, chunk_overlap,
                                RecursiveCharacterTextSplitter)
           index == create_vector_store(chunks, collection, chromadb, on_duplicate,
                                        Len(index_calls) + 1)
       IN /\ upload_request' = [files |-> files, session_id |-> session_id,
                                loads |-> loads,
                                received |-> files_received + Len(files)]
          /\ IF done.all_documents = <<>>
             THEN /\ upload_response' = [status_code |-> 200,
                                         files |-> done.processed_files,
                                         total_chunks |-> 0]
                  /\ UNCHANGED <<collection, index_calls>>
             ELSE /\ collection' = index.collection
                  /\ index_calls' = Append(index_calls,
                                           [session_id |-> session_id, chunks |-> chunks,
                                            raised |-> index.raised])
                  /\ upload_response' =
                        IF index.raised
                        THEN [status_code |-> 500, files |-> <<>>, total_chunks |-> 0]
                        ELSE [status_code |-> 200, files |-> done.processed_files,
                              total_chunks |-> Len(chunks)]
    /\ UNCHANGED <<RecursiveCharacterTextSplitter, chromadb>>
    /\ UNCHANGED <<agent_vars, dispatch_vars, sandbox_vars, split_vars, answer_vars, file_vars>>

\* The endpoint in an environment with or without langchain's splitter and
\* with or without chromadb, its store empty.
InitUpload ==
    /\ AgentIdle
    /\ DispatchIdle
    /\ SandboxIdle
    /\ SplitIdle
    /\ AnswerIdle
    /\ FilesIdle
    /\ RecursiveCharacterTextSplitter \in {"available", "None"}
    /\ chromadb \in {"available", "None"}
    /\ collection = <<>>
    /\ upload_request = NoRequest
    /\ upload_response = NoResponse
    /\ index_calls = <<>>

\* A file and what its loader does with it.
FileLoads == {[filename |-> f, load |-> l] : f \in Filenames, l \in
                {Raised, Loaded(<<>>), Loaded(<<1500>>), Loaded(<<600, 1200>>)}}

NextUpload ==
    \E batch \in SeqsUpTo({fl \in FileLoads : fl.load \in load_outcomes(fl.filename)},
                          MaxFiles - files_received),
       session_id \in Sessions, on_duplicate \in {"skip", "raise"} :
        upload_files([i \in 1..Len(batch) |-> batch[i].filename], session_id,
                     [i \in 1..Len(batch) |-> batch[i].load], on_duplicate)

SpecUpload == InitUpload /\ [][NextUpload]_vars

\* ------------------------------------------------------- fallback splitter
\* Longest text, in characters, handed to the fallback loop in SpecSplit.
MaxText == 7
\* Largest chunk_size and chunk_overlap tried in SpecSplit.
MaxSize == 3
(* Passes of the loop followed in one run.  A run whose window advances    *)
(* makes at most one pass per character; a run whose window does not is    *)
(* followed this far.                                                      *)
MaxPasses == MaxText + 2

\* A pass that steps back by the overlap after the last window too.
split_pass_keeps_overlap ==
    /\ splitting.status = "splitting"
    /\ splitting.start < splitting.text
    /\ Len(splitting.chunks) < MaxPasses
    /\ LET end == IF splitting.start + splitting.chunk_size < splitting.text
                  THEN splitting.start + splitting.chunk_size
                  ELSE splitting.text
       IN splitting' = [splitting EXCEPT
                          !.chunks = Append(@, [from |-> splitting.start, to |-> end]),
                          !.start = end - splitting.chunk_overlap]
    /\ UNCHANGED <<agent_vars, dispatch_vars, sandbox_vars, upload_vars, answer_vars, file_vars>>

\* A pass that starts the next window where this one ends.
split_pass_no_overlap ==
    /\ splitting.status = "splitting"
    /\ splitting.start < splitting.text
    /\ Len(splitting.chunks) < MaxPasses
    /\ LET end == IF splitting.start + splitting.chunk_size < splitting.text
                  THEN splitting.start + splitting.chunk_size
                  ELSE splitting.text
       IN splitting' = [splitting EXCEPT
                          !.chunks = Append(@, [from |-> splitting.start, to |-> end]),
                          !.start = end]
    /\ UNCHANGED <<agent_vars, dispatch_vars, sandbox_vars, upload_vars, answer_vars, file_vars>>

(* One pass of `while start < len(text)`: the chunk text[start:end] is     *)
(* appended and start moves to end - chunk_overlap, or to end after the    *)
(* last window.                                                            *)
split_pass ==
    /\ splitting.status = "splitting"
    /\ splitting.start < splitting.text
    /\ Len(splitting.chunks) < MaxPasses
    /\ LET end == IF splitting.start + splitting.chunk_size < splitting.text
                  THEN splitting.start + splitting.chunk_size
                  ELSE splitting.text
       IN splitting' = [splitting EXCEPT
                          !.chunks = Append(@, [from |-> splitting.start, to |-> end]),
                          !.start = IF end < splitting.text
                                    THEN end - splitting.chunk_overlap
                                    ELSE end]
    /\ UNCHANGED <<agent_vars, dispatch_vars, sandbox_vars, upload_vars, answer_vars, file_vars>>

\* The loop condition fails: the chunks of the document are complete.
split_return ==
    /\ splitting.status = "splitting"
    /\ splitting.start >= splitting.text
    /\ splitting' = [splitting EXCEPT !.status = "returned"]
    /\ UNCHANGED <<agent_vars, dispatch_vars, sandbox_vars, upload_vars, answer_vars, file_vars>>

(* split_text without langchain's splitter, called on one document of any  *)
(* length with any chunk_size > 0 and any chunk_overlap >= 0.              *)
InitSplit ==
    /\ AgentIdle
    /\ DispatchIdle
    /\ SandboxIdle
    /\ AnswerIdle
    /\ FilesIdle
    /\ RecursiveCharacterTextSplitter = "None"
    /\ chromadb = "available"
    /\ collection = <<>>
    /\ upload_request = NoRequest
    /\ upload_response = NoResponse
    /\ index_calls = <<>>
    /\ splitting \in {[text |-> n, chunk_size |-> c, chunk_overlap |-> o, start |-> 0,
                       chunks |-> <<>>, status |-> "splitting"] :
                        n \in 0..MaxText, c \in 1..MaxSize, o \in 0..MaxSize}

NextSplit ==
    \/ split_pass
    \/ split_return

SpecSplit == InitSplit /\ [][NextSplit]_vars

\* ------------------------------------------------------- persisted files
\* Files written in one behaviour of SpecArtifacts.
MaxWrites == 2
\* Seconds that pass in one behaviour of SpecArtifacts.
MaxClock == 1
\* Invocations of the progress tracker in one behaviour of SpecTracker.
MaxUpdates == 3

\* The variables of the agent but for learning_state.json.
turn_vars ==
    <<LLM_WITH_TOOLS, executor, chat_memory, node, thread_id, messages, given, passed,
      invocations, steps, cycles, served, tracker_out, solo_state, solo_out, log>>

(* A path under ~/Downloads/StudyAssistant: the directory, the prefix of   *)
(* the file name and, for a name that carries one, the timestamp           *)
(* strftime("%Y%m%d_%H%M%S") makes of the clock: the second.               *)
timestamped(dir, prefix, now) ==
    [dir |-> dir, prefix |-> prefix, stamped |-> TRUE, timestamp |-> now]
plain(dir, prefix) ==
    [dir |-> dir, prefix |-> prefix, stamped |-> FALSE, timestamp |-> 0]

\* with open(filepath, 'w') ...: the file is created or its content replaced.
write(files, path, tool) ==
    Append(files, [path |-> path, tool |-> tool, call |-> Len(files) + 1])

\* A second passes.
clock_tick ==
    /\ clock < MaxClock
    /\ clock' = clock + 1
    /\ UNCHANGED <<downloads, last_call, invocation>>
    /\ UNCHANGED <<agent_vars, dispatch_vars, sandbox_vars, upload_vars, split_vars,
                   answer_vars>>

\* The requests made of the formatter: request.lower() of each.
FormatterRequests == {"quiz on chapter 2", "flashcard deck of terms", "hello"}

\* The schema the keywords of a request select: file_prefix, "" for none.
file_prefix(request) ==
    CASE request = "quiz on chapter 2" -> "quiz"
      [] request = "flashcard deck of terms" -> "flashcards"
      [] OTHER -> ""

(* formatter_tool_query: a request of no known format is answered with an *)
(* error text; else the structured LLM is invoked and, unless that raises, *)
(* its output is written to generated_outputs/{file_prefix}_{timestamp}.   *)
formatter_tool_query(request, raises) ==
    /\ Len(downloads) < MaxWrites
    /\ LET saved == file_prefix(request) # "" /\ ~raises
       IN /\ last_call' = [NoCall EXCEPT
                             !.tool = "structured_formatter",
                             !.status = IF file_prefix(request) = "" THEN "Error"
                                        ELSE IF raises THEN "execution error"
                                        ELSE "Generated",
                             !.saved = saved]
          /\ downloads' = IF saved
                          THEN write(downloads,
                                     timestamped("generated_outputs", file_prefix(request),
                                                 clock),
                                     "structured_formatter")
                          ELSE downloads
    /\ UNCHANGED <<clock, invocation>>
    /\ UNCHANGED <<agent_vars, dispatch_vars, sandbox_vars, upload_vars, split_vars,
                   answer_vars>>

\* generate_test_cases: ("", "") without a model or when it fails.
NoTests == [test_cases_code |-> "", expected_outputs |-> ""]
Generated == {NoTests, [test_cases_code |-> "gen_tests", expected_outputs |-> "gen_out"]}

\* What repl.run(full_script) gives: an output, or "raise" for an exception.
ExecutionOutputs == {"out", "gen_out", "Traceback", "raise"}

(* The test cases validate_code_solution runs and the output it expects:   *)
(* those generated, when either argument is empty and the generation gave  *)
(* test cases; the caller's otherwise.                                     *)
chosen_tests(test_cases, expected_output, generated) ==
    IF (test_cases = "" \/ expected_output = "") /\ generated.test_cases_code # ""
    THEN [test_cases |-> generated.test_cases_code,
          expected_output |-> generated.expected_outputs, auto_generated |-> TRUE]
    ELSE [test_cases |-> test_cases, expected_output |-> expected_output,
          auto_generated |-> FALSE]

\* full_script = user_code, plus "\n\n" and the test cases when there are any.
full_script(user_code, test_cases) ==
    IF test_cases = "" THEN user_code ELSE user_code \o "\n\n" \o test_cases

\* The status of the report.
validation_status(execution_output, expected_output) ==
    IF execution_output = "Traceback" THEN "Failed"
    ELSE IF expected_output # "" /\ execution_output # expected_output THEN "Failed"
    ELSE "Success"

(* validate_code_solution, the run of the script taken as one step: the    *)
(* test cases are chosen, the script is run and the report is written to   *)
(* validation_reports/validation_{timestamp}, or validation_error_         *)
(* {timestamp} when the run raised; without a REPL nothing is run.         *)
solution_validator(user_code, test_cases, expected_output, generated, execution_output) ==
    /\ Len(downloads) < MaxWrites
    /\ LET c == chosen_tests(test_cases, expected_output, generated)
           raised == execution_output = "raise"
       IN IF repl = "None"
          THEN /\ last_call' = [NoCall EXCEPT !.tool = "solution_validator",
                                              !.user_code = user_code,
                                              !.test_cases = test_cases,
                                              !.expected_output = expected_output,
                                              !.status = "Python REPL not available"]
               /\ UNCHANGED downloads
          ELSE /\ last_call' =
                     [tool |-> "solution_validator", user_code |-> user_code,
                      test_cases |-> test_cases, expected_output |-> expected_output,
                      full_script |-> full_script(user_code, c.test_cases),
                      auto_generated |-> c.auto_generated,
                      status |-> IF raised THEN "Error"
                                 ELSE validation_status(execution_output,
                                                        c.expected_output),
                      saved |-> TRUE]
               /\ downloads' = write(downloads,
                                     timestamped("validation_reports",
                                                 IF raised THEN "validation_error"
                                                 ELSE "validation", clock),
                                     "solution_validator")
    /\ UNCHANGED <<clock, invocation>>
    /\ UNCHANGED <<agent_vars, dispatch_vars, sandbox_vars, upload_vars, split_vars,
                   answer_vars>>

NextArtifacts ==
    \/ clock_tick
    \/ \E request \in FormatterRequests, raises \in BOOLEAN :
          formatter_tool_query(request, raises)
    \/ \E test_cases \in {"", "tests"}, expected_output \in {"", "out"},
          generated \in Generated, execution_output \in ExecutionOutputs :
          solution_validator("code", test_cases, expected_output, generated,
                             execution_output)

\* The tools called one after the other, nothing written yet.
SpecArtifacts == Init /\ [][NextArtifacts]_vars

\* ------------------------------------------- the progress tracker, overlapping
(* track_learning_progress up to the state it works on: worker w calls it  *)
(* with goal and load_learning_state reads learning_state.json.            *)
load_learning_state(w, goal) ==
    /\ invocation[w].pc # "loaded"
    /\ Len(downloads) + Cardinality({v \in Workers : invocation[v].pc = "loaded"})
         < MaxUpdates
    /\ invocation' = [invocation EXCEPT
                        ![w] = [pc |-> "loaded", goal |-> goal, state |-> learning_state]]
    /\ UNCHANGED <<clock, downloads, last_call, learning_state>>
    /\ UNCHANGED <<turn_vars, dispatch_vars, sandbox_vars, upload_vars, split_vars,
                   answer_vars>>

(* The rest of it: the update is merged into the state that was loaded,    *)
(* save_learning_state writes the result over learning_state.json, the     *)
(* report is written over current_learning_progress.json and the summary   *)
(* is returned.                                                            *)
save_learning_state(w, analysis) ==
    /\ invocation[w].pc = "loaded"
    /\ LET r == track_learning_progress(invocation[w].state, invocation[w].goal, analysis)
       IN /\ learning_state' = r.state
          /\ invocation' = [invocation EXCEPT ![w] = [@ EXCEPT !.pc = "returned",
                                                               !.state = r.state]]
    /\ downloads' = write(downloads,
                          plain("learning_progress", "current_learning_progress"),
                          "learning_tracker")
    /\ UNCHANGED <<clock, last_call>>
    /\ UNCHANGED <<turn_vars, dispatch_vars, sandbox_vars, upload_vars, split_vars,
                   answer_vars>>

NextTracker ==
    \/ \E w \in Workers, goal \in Goals : load_learning_state(w, goal)
    \/ \E w \in Workers, analysis \in Analyses : save_learning_state(w, analysis)

\* Requests served at the same time call the tracker, no state saved yet.
SpecTracker == Init /\ [][NextTracker]_vars

\* ------------------------------------------------------------- properties
Last(s) == s[Len(s)]
IsGraph == executor \in {"graph_sqlite", "graph"}
IsAI(m) == m.rep = "typed" /\ m.role = "ai"
Requests(m) == m.tool_calls # <<>>
SystemCount(s) == Cardinality({i \in 1..Len(s) : IsSystem(s[i])})
ThePrompt == SystemMessage(STUDY_ASSISTANT_SYSTEM_PROMPT)

RECURSIVE IsSubSeq(_, _)
IsSubSeq(a, b) ==
    IF a = <<>> THEN TRUE
    ELSE IF b = <<>> THEN FALSE
    ELSE IF Head(a) = Head(b) THEN IsSubSeq(Tail(a), Tail(b))
    ELSE IsSubSeq(a, Tail(b))

HistoryKept == node = "llm" => IsSubSeq(log[thread_id], messages)

(* C2 as claimed.  Whatever executor serves the queries, the state a query *)
(* passes to the LLM step holds, in order, every message appended by the   *)
(* earlier queries of the same session identifier.                         *)
C2_HistoryKeptByEveryExecutor == executor # "none" => HistoryKept

(* C2 as amended.  With the compiled graph and its SQLite checkpointer     *)
(* the state passed to the LLM step holds, in order, every message         *)
(* appended for the session by this and earlier queries; the graph         *)
(* compiled without a checkpointer and the fallback SimpleAgent start      *)
(* every query from a state holding its own user message alone.            *)
C2_HistoryKeptByCheckpointer ==
    /\ executor = "graph_sqlite" => HistoryKept
    /\ (executor \in {"graph", "simple"} /\ node = "llm" /\ steps = <<>>) =>
          Len(messages) = 1

\* C2 witness: a second query of a session is about to call the LLM with the
\* first query's messages in front of its own.
C2_Witness ==
    /\ executor = "graph_sqlite"
    /\ node = "llm"
    /\ steps = <<>>
    /\ thread_id \in Sessions
    /\ Len(log[thread_id]) > 2
    /\ Len(messages) > 2

(* C3.  What the progress tracker returns to session "A" is what it        *)
(* returns in the run where the other sessions' tracker updates do not     *)
(* take place.                                                             *)
C3_TrackerIsolated == tracker_out["A"] = solo_out

(* C4.  The sequence call_model passes to the model never holds two        *)
(* System messages, whatever representations the state mixes.              *)
C4_AtMostOneSystem == SystemCount(passed) <= 1

\* A conversation state without a System message in any representation.
HoldsNoSystem(s) ==
    \A i \in 1..Len(s) :
        /\ ~IsSystem(s[i])
        /\ ~(s[i].rep = "pair" /\ Lower(s[i].role) \in {"system", "sys"})
        /\ ~(s[i].rep = "dict" /\ s[i].role = "system")

(* C5.  From a state without a System message the model is passed a        *)
(* sequence that starts with the behaviour prompt and holds one System     *)
(* message; the same on the second call in a row.                          *)
C5_PromptLeadsOnce ==
    (invocations > 0 /\ HoldsNoSystem(given)) =>
        /\ passed # <<>>
        /\ passed[1] = ThePrompt
        /\ SystemCount(passed) = 1

(* C6 as claimed.  The model is never invoked on an empty conversation     *)
(* state: the step fails instead.                                          *)
C6_EmptyNeverInvoked == invocations > 0 => given # <<>>

(* C6 as amended.  On an empty conversation state the LLM step raises no   *)
(* error of its own: it invokes the model with the behaviour prompt alone, *)
(* and the response becomes the only message of the state.                 *)
C6_EmptyInvokedWithPrompt ==
    (invocations > 0 /\ given = <<>>) =>
        /\ passed = <<ThePrompt>>
        /\ node = "error" \/ (Len(messages) = 1 /\ IsAI(messages[1]))

\* C6 witness: the model has answered a call made on the empty state.
C6_Witness ==
    /\ invocations = 1
    /\ given = <<>>
    /\ Len(messages) = 1
    /\ passed = <<ThePrompt>>

(* C7.  An LLM step appends one message, the AI response, to the tail and  *)
(* leaves every earlier message as it was and where it was.                *)
C7_LLMStepAppendsOne ==
    [][steps' = Append(steps, "llm") =>
          /\ Len(messages') = Len(messages) + 1
          /\ SubSeq(messages', 1, Len(messages)) = messages
          /\ IsAI(Last(messages'))]_vars

\* C7 witness: SimpleAgent has run an LLM step on a state holding the raw
\* ('user', query) pair, which the model saw typed and behind the prompt.
C7_Witness ==
    /\ executor = "simple"
    /\ steps # <<>> /\ Last(steps) = "llm"
    /\ messages[1].rep = "pair"
    /\ passed[1] = ThePrompt
    /\ passed[2] = HumanMessage(messages[1].content)
    /\ Len(messages) = Len(given) + 1

(* C8.  When coercion raises part-way, the model is passed one Human       *)
(* message holding the concatenation of all the input messages.            *)
C8_FailureFallsBackToOneHuman ==
    (invocations > 0 /\ coerce_loop(given).raised) =>
        passed = <<HumanMessage(Join(given))>>

\* The variant the claim assigns to a non-null input.
ClaimedVariant(m) ==
    CASE m.rep = "typed" -> m
      [] m.rep = "pair" ->
            IF Lower(m.role) \in {"assistant", "ai"} THEN AIMessage(m.content)
            ELSE IF Lower(m.role) \in {"system", "sys"} THEN SystemMessage(m.content)
            ELSE HumanMessage(m.content)
      [] m.rep = "dict" ->
            IF m.role = "assistant" THEN AIMessage(m.content)
            ELSE IF m.role = "system" THEN SystemMessage(m.content)
            ELSE HumanMessage(m.content)
      [] OTHER -> HumanMessage(m.content)

RECURSIVE ClaimedCoercion(_)
ClaimedCoercion(s) ==
    IF s = <<>> THEN <<>>
    ELSE IF Head(s).rep = "none" THEN ClaimedCoercion(Tail(s))
    ELSE <<ClaimedVariant(Head(s))>> \o ClaimedCoercion(Tail(s))

\* Inputs of the forms the claim lists: text payloads, and objects whose
\* str() returns.
WellFormed(s) == \A i \in 1..Len(s) : s[i].valid

(* C9.  Coercion is total and order-preserving over the non-null inputs    *)
(* and gives each the variant of its role: behind the prompt, if one was   *)
(* injected, the model is passed the claimed variant of every input, in    *)
(* the order of the inputs.                                                *)
C9_CoercionByRole ==
    (invocations > 0 /\ WellFormed(given)) =>
        \/ passed = ClaimedCoercion(given)
        \/ passed = <<ThePrompt>> \o ClaimedCoercion(given)

(* C10.  While the model client is not initialized the LLM step fails at   *)
(* once: nothing is passed to the model, no invocation is made and the     *)
(* conversation state stays as it was.                                     *)
C10_UninitializedFailsFirst ==
    [][LLM_WITH_TOOLS = "None" =>
          /\ node' = "error"
          /\ messages' = messages
          /\ passed' = passed /\ passed = <<>>
          /\ invocations' = invocations /\ invocations = 0]_vars

\* C10 witness: call_model has failed on a non-empty state with the client unset.
C10_Witness ==
    /\ LLM_WITH_TOOLS = "None"
    /\ node = "error"
    /\ messages # <<>>
    /\ invocations = 0

\* C5 on the states whose messages all coerce: there the prompt leads, once.
PromptLeadsOnceWhenCoercible ==
    (invocations > 0 /\ HoldsNoSystem(given) /\ ~coerce_loop(given).raised) =>
        /\ passed[1] = ThePrompt
        /\ SystemCount(passed) = 1

\* A tools step has just run.
AfterDispatch == steps # <<>> /\ Last(steps) = "tools"

\* The requests the tools step served: those of the trailing AI message.
Dispatched ==
    LET ai == {i \in 1..Len(messages) : IsAI(messages[i])}
    IN messages[CHOOSE i \in ai : \A j \in ai : j <= i].tool_calls

\* The tool functions invoked for the i-th request, in order.
Invoked(i) == [k \in 1..Len(called[i]) |-> called[i][k].tool]

\* The tool the stated priority gives a name: the tool of that name, else
\* the first whose name holds it, else the sole tool, else none.
ClaimedResolution(name, map) ==
    IF name # NoName /\ InSeq(name, map) THEN <<name>>
    ELSE IF name # NoName /\ first_match(name, map) > 0
         THEN <<map[first_match(name, map)]>>
    ELSE IF Len(map) = 1 THEN <<map[1]>>
    ELSE <<>>

(* C11.  The fallback dispatch invokes, for each request, the tool the     *)
(* priority gives its name and no other: the tool of exactly that name,    *)
(* also when another name holds it; a tool whose name holds it only when   *)
(* no name equals it; the sole tool only when neither matched; and when    *)
(* nothing resolves no function is invoked and the result text is empty.   *)
C11_ResolutionPriority ==
    (executor = "simple" /\ AfterDispatch) =>
        \A i \in 1..Len(called) :
            /\ Invoked(i) = ClaimedResolution(Dispatched[i].name, tool_callable_map)
            /\ Invoked(i) = <<>> => tools_out[i].content = ""

\* The text the last invocation made for the i-th request came back with,
\* as executor kind hands it on.
ResultText(kind, i) ==
    IF called[i] = <<>>
    THEN IF kind = "simple" THEN ""
         ELSE "Error: " \o Dispatched[i].name \o " is not a valid tool"
    ELSE LET l == called[i][Len(called[i])]
         IN IF kind = "simple"
            THEN out_text(try_call(l.tool, l.inp, l.outcome).out)
            ELSE wrapper(l.tool, l.inp, l.outcome, search_credentials)

\* The tools step appended one message per request, the i-th holding the
\* result of the i-th request.
ResultsInOrder ==
    AfterDispatch =>
        /\ Len(tools_out) = Len(Dispatched)
        /\ Len(called) = Len(Dispatched)
        /\ SubSeq(messages, Len(messages) - Len(tools_out) + 1, Len(messages)) = tools_out
        /\ \A i \in 1..Len(tools_out) : tools_out[i].content = ResultText(executor, i)

(* C12.  A tools step on a trailing AI message with n requests appends n   *)
(* messages, the i-th holding the text of the i-th request's result, also  *)
(* when requests fail or do not resolve, and each is a Tool-result         *)
(* message.                                                                *)
C12_ResultsAreToolMessages ==
    /\ ResultsInOrder
    /\ AfterDispatch =>
          \A i \in 1..Len(tools_out) :
              tools_out[i].rep = "typed" /\ tools_out[i].role = "tool"

(* C13.  A dispatch on a trailing AI message without requests returns the  *)
(* empty list, appends nothing, invokes no tool and is followed by no LLM  *)
(* call; and the loop, after an LLM step whose AI message carries no       *)
(* request, is at END, from where the model is not invoked again.          *)
C13_ZeroRequestsNoOp ==
    [][/\ (node = "tools" /\ messages[Len(messages)].tool_calls = <<>>) =>
            /\ tools_out' = <<>>
            /\ called' = <<>>
            /\ messages' = messages
            /\ invocations' = invocations
            /\ node' = "end"
       /\ (steps' = Append(steps, "llm") /\ messages'[Len(messages')].tool_calls = <<>>) =>
            node' = "end"
       /\ node = "end" => invocations' = invocations]_vars

\* C13 witness: ToolsState.run has returned from a state whose trailing AI
\* message carries no request.
C13_Witness ==
    /\ executor = "simple"
    /\ steps = <<"tools">>
    /\ Dispatched = <<>>
    /\ tools_out = <<>>
    /\ Len(messages) = 2
    /\ node = "end"

\* The fallback tools step serves every request and hands over to the LLM.
DispatchNeverAborts ==
    (executor = "simple" /\ AfterDispatch) =>
        /\ Len(tools_out) = Len(Dispatched)
        /\ Len(steps) > 1 => node = "llm"

(* C14.  A failure in the fallback dispatch does not abort the turn: the   *)
(* step completes with a result for every request, the loop goes on to the *)
(* LLM step, and a request whose tool function raised, or whose name       *)
(* resolved to no tool, has the empty text as its result.                  *)
C14_FailureGivesEmptyResult ==
    /\ DispatchNeverAborts
    /\ (executor = "simple" /\ AfterDispatch) =>
          \A i \in 1..Len(called) :
              (called[i] = <<>> \/ \E k \in 1..Len(called[i]) : called[i][k].outcome = "raise")
                  => tools_out[i].content = ""

\* The texts that state a failure of a tool.
ErrorTexts ==
    {wrapper(n, "q", "raise", c) : n \in {"google_realtime_search", "search"}, c \in BOOLEAN}
    \cup {tool_text(TOOLS_LIST[i], "q", "error_text") : i \in 1..Len(TOOLS_LIST)}

(* C15.  Through either executor a request served by a registered tool     *)
(* gets a text, and when the tool failed inside (it raised, as the web     *)
(* search does without credentials, or it caught the failure itself) the   *)
(* text states the error.                                                  *)
C15_FailureReturnedAsErrorText ==
    AfterDispatch =>
        \A i \in 1..Len(called) :
            (called[i] # <<>> /\ called[i][Len(called[i])].outcome \in {"raise", "error_text"})
                => tools_out[i].content \in ErrorTexts

(* C16.  A turn is at END only behind an AI message that carries no tool   *)
(* request: while the model keeps requesting tools the loop keeps cycling. *)
C16_EndOnlyWithoutRequests ==
    node = "end" => (IsAI(Last(messages)) /\ ~Requests(Last(messages)))

(* C17.  No invocation of the code-execution or the solution-validation    *)
(* tool keeps its caller waiting beyond the timeout: by then the code has  *)
(* ended or the tool has given up on it and returned the timeout text.     *)
C17_NoRunOutlivesTimeout ==
    ~(execution.status = "waiting" /\ execution.elapsed > DefaultTimeout)

\* f[1] + ... + f[n]
RECURSIVE Sum(_, _)
Sum(f, n) == IF n = 0 THEN 0 ELSE f[n] + Sum(f, n - 1)

\* The i-th file of the last request has a loader, and the loader returned.
SuccessFile(i) ==
    /\ loader(upload_request.files[i]) # "unsupported"
    /\ ~upload_request.loads[i].raised

\* The chunks the documents of the i-th file are split into.
ChunksOfFile(i) ==
    LET lengths == upload_request.loads[i].lengths
    IN Sum([p \in 1..Len(lengths) |->
              Len(windows(lengths[p], 0, chunk_size, chunk_overlap))], Len(lengths))

(* C18.  The report of an upload holds one entry per file, in upload       *)
(* order: 'success' for a file that has a loader and loads, 'error' with a *)
(* message for a file without a loader or whose loader fails; its          *)
(* total_chunks counts the chunks of the 'success' files and no others.    *)
(* The response is a failure only when the indexing of the loaded          *)
(* documents raised, never for an error on a file.                         *)
C18_UploadReport ==
    LET req == upload_request
        resp == upload_response
    IN /\ req.files # <<>> => resp.status_code \in {200, 500}
       /\ resp.status_code = 200 =>
            /\ Len(resp.files) = Len(req.files)
            /\ \A i \in 1..Len(req.files) :
                 /\ resp.files[i].filename = req.files[i]
                 /\ resp.files[i].status = IF SuccessFile(i) THEN "success" ELSE "error"
                 /\ ~SuccessFile(i) => resp.files[i].error # ""
            /\ resp.total_chunks =
                  Sum([i \in 1..Len(req.files) |->
                         IF SuccessFile(i) THEN ChunksOfFile(i) ELSE 0], Len(req.files))
       /\ resp.status_code = 500 =>
            /\ \E i \in 1..Len(req.files) : SuccessFile(i)
            /\ index_calls # <<>> /\ Last(index_calls).raised

\* C18 witness: a report that lists a loaded file, a file without a loader
\* and a file whose loader failed, in a batch of three.
C18_Witness ==
    /\ upload_response.status_code = 200
    /\ Len(upload_response.files) = 3
    /\ upload_response.total_chunks > 0
    /\ \E i, j, k \in 1..3 :
         /\ upload_response.files[i].status = "success"
         /\ upload_response.files[j].status = "error"
         /\ loader(upload_request.files[j]) = "unsupported"
         /\ upload_response.files[k].status = "error"
         /\ loader(upload_request.files[k]) # "unsupported"

(* C19.  Every record of the store carries the session_id of the upload    *)
(* that added it and, as source_file, the name of the file its text comes  *)
(* from.                                                                   *)
C19_ChunksKeepTheirTags ==
    \A j \in 1..Len(collection) :
        /\ <<"session_id", index_calls[collection[j].call].session_id>>
              \in collection[j].metadata
        /\ <<"source_file", collection[j].document.source>> \in collection[j].metadata

(* C20.  With the persistent store no index call raises and the collection *)
(* holds, for every call made, a record for each chunk passed to it.       *)
C20_IndexAppendOnly ==
    chromadb = "available" =>
        /\ \A k \in 1..Len(index_calls) :
             /\ ~index_calls[k].raised
             /\ \A i \in 1..Len(index_calls[k].chunks) :
                  \E j \in 1..Len(collection) :
                      /\ collection[j].call = k
                      /\ collection[j].document = index_calls[k].chunks[i].page_content
        /\ Len(collection) =
              Sum([k \in 1..Len(index_calls) |-> Len(index_calls[k].chunks)],
                  Len(index_calls))

\* ------------------------------------------------ the fallback splitter
ValidSizes ==
    /\ splitting.chunk_size > 0
    /\ 0 <= splitting.chunk_overlap
    /\ splitting.chunk_overlap < splitting.chunk_size

Returned == splitting.status = "returned"

\* The loop of split_text and the windows the upload endpoint is given agree.
ChunksAreWindows ==
    Returned /\ ValidSizes =>
        splitting.chunks = windows(splitting.text, 0, splitting.chunk_size,
                                   splitting.chunk_overlap)

(* C22: with chunk_size > 0 and 0 <= chunk_overlap < chunk_size every pass *)
(* of the fallback loop moves the window start strictly forward and never  *)
(* past the end of the text, so the loop makes at most one pass per        *)
(* character and terminates; with chunk_overlap >= chunk_size a pass that  *)
(* has not reached the end of the text does not move the start forward.    *)
C22_WindowAdvances ==
    [][splitting'.chunks # splitting.chunks =>
         IF ValidSizes
         THEN /\ splitting'.start > splitting.start
              /\ splitting'.start <= splitting.text
              /\ Len(splitting'.chunks) <= splitting.text
         ELSE Last(splitting'.chunks).to < splitting.text =>
                 splitting'.start <= splitting.start]_vars

\* A run of several windows with an overlap has returned.
C22_Witness ==
    /\ Returned
    /\ ValidSizes
    /\ splitting.chunk_overlap > 0
    /\ Len(splitting.chunks) >= 3

\* What the claim says of the chunks of a text longer than chunk_size.
SlidingWindows(c, n, size, overlap) ==
    /\ \A k \in 1..Len(c) :
          /\ c[k].from = (k - 1) * (size - overlap)
          /\ c[k].to - c[k].from <= size
          /\ c[k].from < c[k].to
    /\ \A p \in 0..(n - 1) : \E k \in 1..Len(c) : c[k].from <= p /\ p < c[k].to
    /\ \A k \in 1..(Len(c) - 1) :
          /\ c[k + 1].from <= c[k].to
          /\ c[k].to <= c[k + 1].to
          /\ c[k].to - c[k + 1].from = overlap

(* C23 as stated: for 0 <= chunk_overlap < chunk_size the fallback         *)
(* splitter yields a single chunk equal to the text when the text is at    *)
(* most chunk_size long, and otherwise windows whose starts advance by     *)
(* chunk_size - chunk_overlap, each at most chunk_size long, covering      *)
(* every position, consecutive ones sharing exactly chunk_overlap          *)
(* characters.                                                             *)
C23_SingleChunkOrWindows ==
    Returned /\ ValidSizes =>
        IF splitting.text <= splitting.chunk_size
        THEN splitting.chunks = <<[from |-> 0, to |-> splitting.text]>>
        ELSE SlidingWindows(splitting.chunks, splitting.text, splitting.chunk_size,
                            splitting.chunk_overlap)

(* C23 amended: the same for every non-empty text; the empty text yields   *)
(* no chunk at all.                                                        *)
C23_NoChunkOrSingleChunkOrWindows ==
    Returned /\ ValidSizes =>
        IF splitting.text = 0 THEN splitting.chunks = <<>>
        ELSE IF splitting.text <= splitting.chunk_size
        THEN splitting.chunks = <<[from |-> 0, to |-> splitting.text]>>
        ELSE SlidingWindows(splitting.chunks, splitting.text, splitting.chunk_size,
                            splitting.chunk_overlap)

\* A text has been cut into several overlapping windows, the last one short.
C23_Witness ==
    /\ Returned
    /\ ValidSizes
    /\ splitting.chunk_overlap > 0
    /\ Len(splitting.chunks) >= 3
    /\ Last(splitting.chunks).to - Last(splitting.chunks).from < splitting.chunk_size

\* ------------------------------------------------- the argument payload
\* The argument the claim gives a payload: as a string, or absent.
ClaimedArgument(v) ==
    IF v.kind = "none" THEN None ELSE Text(str(v))

\* The payload the claim has passed on for a request.
ClaimedPayload(args) ==
    IF args.kind = "dict"
    THEN LET has(k) == \E i \in 1..Len(args.items) : args.items[i].key = k
             found == {n \in 1..Len(PrimaryFields) : has(PrimaryFields[n])}
         IN IF found = {} THEN Text(json_dumps(args))
            ELSE LET k == PrimaryFields[CHOOSE n \in found : \A m \in found : n <= m]
                     i == CHOOSE j \in 1..Len(args.items) : args.items[j].key = k
                 IN ClaimedArgument(args.items[i].value)
    ELSE ClaimedArgument(args)

(* C24.  Every tool function the fallback dispatch invokes is passed one   *)
(* string or nothing: for a dict payload the value of the first of inp,    *)
(* input, query, text it holds, or the dict serialized when it holds none  *)
(* of them; for a payload that is not a string, its text.                  *)
C24_PayloadNormalized ==
    (executor = "simple" /\ AfterDispatch) =>
        \A i \in 1..Len(called) : \A k \in 1..Len(called[i]) :
            called[i][k].inp = ClaimedPayload(Dispatched[i].args)

\* The same for the payloads Python counts as true.
PayloadNormalizedWhenTruthy ==
    (executor = "simple" /\ AfterDispatch) =>
        \A i \in 1..Len(called) : \A k \in 1..Len(called[i]) :
            truthy(Dispatched[i].args) =>
                called[i][k].inp = ClaimedPayload(Dispatched[i].args)

(* C27.  For each request the fallback dispatch invokes at most one tool   *)
(* function, at most once, whatever that invocation does and however many  *)
(* tools are registered.                                                   *)
C27_AtMostOneInvocation ==
    (executor = "simple" /\ AfterDispatch) =>
        \A i \in 1..Len(called) : Len(called[i]) <= 1

\* ------------------------------------------------ fallback and graph executor
(* C28.  A turn of the fallback SimpleAgent ends as a turn of the graph    *)
(* executor does on the same answers of the model and the tools: its steps *)
(* alternate LLM, TOOLS, LLM, ..., it is at END only when the latest AI    *)
(* message carries no tool request, and behind the user message its state  *)
(* holds AI messages and Tool-result messages only.                        *)
C28_FallbackRunsAsGraph ==
    (executor = "simple" /\ node = "end") =>
        /\ \A i \in 1..Len(steps) : steps[i] = IF i % 2 = 1 THEN "llm" ELSE "tools"
        /\ IsAI(Last(messages)) /\ ~Requests(Last(messages))
        /\ \A i \in 2..Len(messages) :
              \/ IsAI(messages[i])
              \/ messages[i].rep = "typed" /\ messages[i].role = "tool"

\* The part of it that holds: the fallback's steps alternate and end with an LLM step.
FallbackStepsAlternate ==
    (executor = "simple" /\ node = "end") =>
        /\ \A i \in 1..Len(steps) : steps[i] = IF i % 2 = 1 THEN "llm" ELSE "tools"
        /\ Last(steps) = "llm"
        /\ IsAI(Last(messages))

\* ------------------------------------------------------ the answer returned
\* Where the user message of the query being answered stands in the state.
TurnStart ==
    last_index({i \in 1..Len(messages) :
                  /\ messages[i].content = QueryText(served)
                  /\ Lower(messages[i].role) \in {"user", "human"}})

(* C29.  The answer search_rag returns for a query is the text of a        *)
(* message appended after that query's user message, never of a message of *)
(* an earlier turn of the session, also when the final AI message of the   *)
(* turn has empty content.                                                 *)
C29_AnswerFromOwnTurn ==
    (node = "idle" /\ served > 0 /\ answer.status_code = 200) =>
        /\ TurnStart > 0
        /\ answer.index > TurnStart

\* The same for the turns whose final AI message has content.
AnswerIsFinalMessageWithContent ==
    (node = "idle" /\ served > 0 /\ answer.status_code = 200
        /\ Last(messages).content # "") =>
        /\ answer.index = Len(messages)
        /\ answer.text = Last(messages).content

\* ---------------------------------------------------------- persisted files
\* The writes of the formatter and the validator.
Artifacts == {i \in 1..Len(downloads) : downloads[i].path.stamped}

(* C21.  Every file the formatter or the validator writes is its own: no   *)
(* later invocation writes to the path of a file an earlier one wrote,     *)
(* however little time lies between them.                                  *)
C21_ArtifactsNeverOverwritten ==
    \A i \in Artifacts : \A j \in Artifacts :
        i < j => downloads[i].path # downloads[j].path

\* The same for invocations in different seconds.
ArtifactsOfDifferentSecondsDiffer ==
    \A i \in Artifacts : \A j \in Artifacts :
        (i < j /\ downloads[i].path.timestamp # downloads[j].path.timestamp)
            => downloads[i].path # downloads[j].path

(* C26.  When the caller of the validator supplies test cases, the script  *)
(* run is the user code followed by exactly those, and none are generated; *)
(* generated test cases are run only when the caller supplied none.        *)
C26_SuppliedTestsAreRun ==
    (last_call.tool = "solution_validator" /\ last_call.test_cases # "") =>
        /\ last_call.full_script = last_call.user_code \o "\n\n" \o last_call.test_cases
        /\ ~last_call.auto_generated

\* The same for a caller who supplies the expected output too.
SuppliedTestsWithOutputAreRun ==
    (last_call.tool = "solution_validator" /\ last_call.test_cases # ""
        /\ last_call.expected_output # "") =>
        /\ last_call.full_script = last_call.user_code \o "\n\n" \o last_call.test_cases
        /\ ~last_call.auto_generated

\* ------------------------------------------------------ the progress tracker
\* Invocations of the tracker that have returned their summary.
TrackerReturns == {i \in 1..Len(downloads) : downloads[i].tool = "learning_tracker"}

(* C25.  After any interleaving of invocations of the tracker the saved    *)
(* progress_history holds one entry for each invocation that returned.     *)
C25_NoUpdateLost ==
    Len(learning_state.progress_history) = Cardinality(TrackerReturns)

\* The history never holds more entries than invocations returned.
HistoryWithinReturns ==
    Len(learning_state.progress_history) <= Cardinality(TrackerReturns)

\* The goals of the tracker requests a tools step is about to serve, in order.
TrackerGoals ==
    LET calls == messages[Len(messages)].tool_calls
        IsTracker(c) == c.name = "learning_tracker"
        asked == SelectSeq(calls, IsTracker)
    IN [i \in 1..Len(asked) |-> asked[i].args]

IsPrefix(a, b) == Len(a) <= Len(b) /\ SubSeq(b, 1, Len(a)) = a
NoDuplicates(q) == \A i \in 1..Len(q) : \A j \in 1..Len(q) : q[i] = q[j] => i = j

====
